---- MODULE Spec2Model ----
(***************************************************************************)
(* A model of fomo.py: the portfolio parser, the valuation engine, the     *)
(* CSV-backed history file and the three modes of main (valuation with an  *)
(* optional save, aggregate, compare).                                     *)
(*                                                                         *)
(* Python strings are sequences of one-character strings.  A missing       *)
(* command-line option (None) and the empty string are both the empty      *)
(* sequence: the program only ever tests them for truthiness.  Floats are  *)
(* exact rationals [k |-> "fin", n, d], plus the three non-finite values   *)
(* a float64 division by zero produces.                                    *)
(***************************************************************************)
EXTENDS Integers, Sequences, FiniteSets, TLC

VARIABLES
    file,       \* portfolio_history.csv: the sequence of its lines (<<>>: absent or empty)
    clock,      \* the wall clock, in half days since 10:00 of day FirstDay
    market,     \* what the price provider answers for each ticker
    lastArgs,   \* the argparse namespace of the last run of main
    printed,    \* what the last run printed, in order
    fetched,    \* the fetch_stock_data calls of the last run, in order
    loaded,     \* whether the last run called load_history
    exit,       \* how the last run ended
    ppc, pstr, pres,        \* parse_portfolio: position, argument, result
    vpc, vport, vres        \* calculate_values: position, argument, result

vars == <<file, clock, market, lastArgs, printed, fetched, loaded, exit,
          ppc, pstr, pres, vpc, vport, vres>>

-----------------------------------------------------------------------------
(* Bounds of the model. *)

\* The longest parse_portfolio argument, in fragments of ParseFrags.
MaxFrags == 3
\* The most rows the history file grows to.
MaxSaves == 2
\* The last clock value (half days after the first run).
MaxClock == 1
\* The most holdings of a portfolio handed to calculate_values directly.
MaxHoldings == 2

-----------------------------------------------------------------------------
(* Characters and strings. *)

Letters == {"A", "B", "Z", "b", "p", "q", "x"}
DigitSeq == <<"0", "1", "2", "3", "4", "5", "6", "7", "8", "9">>
Digits == {DigitSeq[i] : i \in 1..10}
DigitVal(c) == (CHOOSE i \in 1..10 : DigitSeq[i] = c) - 1
NumChars == Digits \cup {"."}

RECURSIVE Concat(_)
Concat(ss) == IF ss = <<>> THEN <<>> ELSE Head(ss) \o Concat(Tail(ss))

\* str.replace(old, new) for one-character old and new.
Replace(s, old, new) == [i \in 1..Len(s) |-> IF s[i] = old THEN new ELSE s[i]]

RECURSIVE IndexFrom(_, _, _)
\* The first index >= i of s holding c, or Len(s) + 1.
IndexFrom(s, c, i) ==
    IF i > Len(s) \/ s[i] = c THEN i ELSE IndexFrom(s, c, i + 1)

RECURSIVE Split(_, _)
\* str.split(sep) for a one-character sep.
Split(s, sep) ==
    LET At(j) ==
          IF j > Len(s) THEN <<s>>
          ELSE <<SubSeq(s, 1, j - 1)>> \o Split(SubSeq(s, j + 1, Len(s)), sep)
    IN At(IndexFrom(s, sep, 1))

-----------------------------------------------------------------------------
(* Floats. *)

RECURSIVE Gcd(_, _)
Gcd(a, b) == IF b = 0 THEN a ELSE Gcd(b, a % b)
Abs(a) == IF a < 0 THEN -a ELSE a
Max(a, b) == IF a < b THEN b ELSE a
Min(a, b) == IF a < b THEN a ELSE b

\* The finite value n/d (d > 0), in lowest terms.
Fin(n, d) ==
    LET g == Gcd(Abs(n), d)
    IN [k |-> "fin", n |-> n \div g, d |-> d \div g]
NaN == [k |-> "nan", n |-> 0, d |-> 1]
PosInf == [k |-> "inf", n |-> 1, d |-> 1]
NegInf == [k |-> "inf", n |-> -1, d |-> 1]
Zero == Fin(0, 1)
Hundred == Fin(100, 1)

FAdd(a, b) == Fin(a.n * b.d + b.n * a.d, a.d * b.d)
FSub(a, b) == Fin(a.n * b.d - b.n * a.d, a.d * b.d)
\* Multiplication; a non-finite left operand stays what it is when the right
\* operand is positive (the only use: times 100).
FMul(a, b) == IF a.k = "fin" THEN Fin(a.n * b.n, a.d * b.d) ELSE a
\* numpy.float64 division: a zero divisor gives nan or an infinity (with a
\* RuntimeWarning), it does not raise.
FDivNumpy(a, b) ==
    IF b.n = 0
    THEN IF a.n = 0 THEN NaN ELSE IF a.n > 0 THEN PosInf ELSE NegInf
    ELSE IF b.n > 0 THEN Fin(a.n * b.d, a.d * b.n)
                    ELSE Fin(-(a.n * b.d), a.d * (-b.n))

-----------------------------------------------------------------------------
(* parse_portfolio. *)

RECURSIVE RunEnd(_, _, _)
\* The end of the longest run of characters of cs starting at s[i]: the first
\* index >= i whose character is not in cs, or Len(s) + 1.
RunEnd(s, i, cs) ==
    IF i > Len(s) \/ s[i] \notin cs THEN i ELSE RunEnd(s, i + 1, cs)

NoMatch == [ok |-> FALSE, ticker |-> <<>>, shares |-> <<>>, next |-> 0]

\* The pattern ([A-Za-z]+)\(([\d\.]+)\) matched at index i.  Both runs are
\* greedy and are followed by a character outside their class, so the longest
\* run is the only candidate.
MatchAt(s, i) ==
    LET Shares(j, k) ==
          IF k = j + 1 \/ k > Len(s) \/ s[k] # ")" THEN NoMatch
          ELSE [ok |-> TRUE, ticker |-> SubSeq(s, i, j - 1),
                shares |-> SubSeq(s, j + 1, k - 1), next |-> k + 1]
        Ticker(j) ==
          IF j = i \/ j > Len(s) \/ s[j] # "(" THEN NoMatch
          ELSE Shares(j, RunEnd(s, j + 1, NumChars))
    IN Ticker(RunEnd(s, i, Letters))

RECURSIVE FindAllFrom(_, _)
\* re.findall: the non-overlapping matches, leftmost first.
FindAllFrom(s, i) ==
    LET Tried(m) ==
          IF m.ok THEN <<[ticker |-> m.ticker, shares |-> m.shares]>>
                       \o FindAllFrom(s, m.next)
          ELSE FindAllFrom(s, i + 1)
    IN IF i > Len(s) THEN <<>> ELSE Tried(MatchAt(s, i))

FindAll(s) == FindAllFrom(s, 1)

NumDots(t) == Cardinality({i \in 1..Len(t) : t[i] = "."})

\* Whether float(t) succeeds for a string of digits and dots.
FloatOk(t) == NumDots(t) <= 1 /\ Len(t) - NumDots(t) >= 1

RECURSIVE DigitsValue(_)
DigitsValue(t) ==
    IF t = <<>> THEN 0
    ELSE 10 * DigitsValue(SubSeq(t, 1, Len(t) - 1)) + DigitVal(t[Len(t)])

RECURSIVE Pow10(_)
Pow10(e) == IF e = 0 THEN 1 ELSE 10 * Pow10(e - 1)

\* float(t) for a string of digits with at most one dot.
FloatOf(t) ==
    LET Scaled(dot) ==
          Fin(DigitsValue(SelectSeq(t, LAMBDA c : c # ".")),
              Pow10(IF dot > Len(t) THEN 0 ELSE Len(t) - dot))
    IN Scaled(IndexFrom(t, ".", 1))

\* [(ticker, float(shares)) for ticker, shares in matches]: one float() that
\* raises ValueError ends the whole call.
HoldingsOf(matches) ==
    IF \E i \in 1..Len(matches) : ~FloatOk(matches[i].shares)
    THEN [raised |-> TRUE, holdings |-> <<>>]
    ELSE [raised |-> FALSE,
          holdings |-> [i \in 1..Len(matches) |->
                          [ticker |-> matches[i].ticker,
                           shares |-> FloatOf(matches[i].shares)]]]

parse_portfolio(portfolio_str) == HoldingsOf(FindAll(portfolio_str))

-----------------------------------------------------------------------------
(* Dates and the clock. *)

\* The day of the first run; the runs start at 10:00 of that day.
FirstDay == 4

\* A date of January 2024 as YYYY<sep>MM<sep>DD.
DateStr(d, sep) ==
    <<"2", "0", "2", "4", sep, "0", "1", sep,
      DigitSeq[(d \div 10) + 1], DigitSeq[(d % 10) + 1]>>

\* The day of the month a YYYY-MM-DD string names, as the provider reads it
\* (0 for a string that is no date).
DayOf(s) ==
    IF Len(s) = 10 /\ s[9] \in Digits /\ s[10] \in Digits
    THEN 10 * DigitVal(s[9]) + DigitVal(s[10])
    ELSE 0

\* datetime.now(): the clock counts half days, 10:00 and 17:00 alternating.
NowDay(c) == FirstDay + (c \div 2)
NowHour(c) == IF c % 2 = 0 THEN 10 ELSE 17

\* The hour the market closes.
CloseHour == 16

get_previous_market_close(c) ==
    LET day == IF NowHour(c) < CloseHour THEN NowDay(c) - 1 ELSE NowDay(c)
    IN DateStr(day, "-")

-----------------------------------------------------------------------------
(* fetch_stock_data: the price provider. *)

TickerA == <<"A">>
TickerB == <<"B">>
TickerZ == <<"Z">>

\* What the provider holds for one ticker: daily closes p0, p0 + step, ... from
\* day 1 on; no data at all; or a failure (the call raises).
Rising == [kind |-> "ok", p0 |-> 100, step |-> 50]
Falling == [kind |-> "ok", p0 |-> 50, step |-> -10]
FromZero == [kind |-> "ok", p0 |-> 0, step |-> 10]
NoData == [kind |-> "none", p0 |-> 0, step |-> 0]
Failing == [kind |-> "err", p0 |-> 0, step |-> 0]
MarketKinds == {Rising, Falling, FromZero, NoData, Failing}

Quote(mkt, ticker) == IF ticker \in DOMAIN mkt THEN mkt[ticker] ELSE NoData

\* The last session whose close is known at clock c.
LastSession(c) == IF NowHour(c) < CloseHour THEN NowDay(c) - 1 ELSE NowDay(c)

\* stock.history(start=, end=): the closes of the sessions from start
\* (inclusive) to end (exclusive), oldest first; empty when there are none.
fetch_stock_data(mkt, c, ticker, start_date, end_date) ==
    LET History(q, lo, hi) ==
          IF q.kind = "err" THEN [raised |-> TRUE, closes |-> <<>>]
          ELSE IF q.kind = "none" \/ hi < lo THEN [raised |-> FALSE, closes |-> <<>>]
          ELSE [raised |-> FALSE,
                closes |-> [i \in 1..(hi - lo + 1) |->
                              Fin(q.p0 + q.step * (lo + i - 2), 1)]]
    IN History(Quote(mkt, ticker),
               Max(1, DayOf(start_date)),
               Min(DayOf(end_date) - 1, LastSession(c)))

-----------------------------------------------------------------------------
(* calculate_values. *)

FetchCall(ticker, start_date, end_date) ==
    [ticker |-> ticker, start_date |-> start_date, end_date |-> end_date]

\* One piece of output: a diagnostic (who: the ticker or name it is about), a
\* results block of print_results or the comparison table (rows).
Line(kind, who, rows) ==
    [kind |-> kind, who |-> who, rows |-> rows,
     start_date |-> <<>>, end_date |-> <<>>, totals |-> <<>>]

\* The row of one holding with a non-empty series.
ValuationRow(ticker, shares, closes) ==
    LET Changes(start_price, end_price, start_value, end_value, value_change) ==
          [ticker |-> ticker, shares |-> shares,
           start_price |-> start_price, end_price |-> end_price,
           start_value |-> start_value, end_value |-> end_value,
           percent_change |-> FMul(FDivNumpy(value_change, start_value), Hundred),
           value_change |-> value_change]
        Values(start_price, end_price, start_value, end_value) ==
          Changes(start_price, end_price, start_value, end_value,
                  FSub(end_value, start_value))
        Prices(start_price, end_price) ==
          Values(start_price, end_price,
                 FMul(start_price, shares), FMul(end_price, shares))
    IN Prices(closes[1], closes[Len(closes)])

CalcStart ==
    [raised |-> FALSE, data |-> <<>>,
     total_start_value |-> Zero, total_end_value |-> Zero,
     overall_percent_change |-> Zero, total_value_change |-> Zero,
     fetched |-> <<>>, printed |-> <<>>]

\* CalcStep with the start value added to the total end value.
CalcStepWrongTotal(mkt, c, h, start_date, end_date, acc) ==
    LET Valued(row) ==
          [acc EXCEPT
             !.data = Append(@, row),
             !.total_value_change = FAdd(@, row.value_change),
             !.total_start_value = FAdd(@, row.start_value),
             !.total_end_value = FAdd(@, row.start_value)]
        Fetched(df) ==
          IF df.raised THEN [acc EXCEPT !.raised = TRUE]
          ELSE IF df.closes = <<>>
          THEN [acc EXCEPT !.printed = Append(@, Line("nodata", h.ticker, <<>>))]
          ELSE Valued(ValuationRow(h.ticker, h.shares, df.closes))
    IN [Fetched(fetch_stock_data(mkt, c, h.ticker, start_date, end_date))
          EXCEPT !.fetched = Append(@, FetchCall(h.ticker, start_date, end_date))]

\* The body of the for loop for holding h, from the accumulated state acc.
CalcStep(mkt, c, h, start_date, end_date, acc) ==
    LET Valued(row) ==
          [acc EXCEPT
             !.data = Append(@, row),
             !.total_value_change = FAdd(@, row.value_change),
             !.total_start_value = FAdd(@, row.start_value),
             !.total_end_value = FAdd(@, row.end_value)]
        Fetched(df) ==
          IF df.raised THEN [acc EXCEPT !.raised = TRUE]
          ELSE IF df.closes = <<>>
          THEN [acc EXCEPT !.printed = Append(@, Line("nodata", h.ticker, <<>>))]
          ELSE Valued(ValuationRow(h.ticker, h.shares, df.closes))
    IN [Fetched(fetch_stock_data(mkt, c, h.ticker, start_date, end_date))
          EXCEPT !.fetched = Append(@, FetchCall(h.ticker, start_date, end_date))]

RECURSIVE CalcLoop(_, _, _, _, _, _, _)
\* for ticker, shares in portfolio: ..., from holding i on.  An exception of
\* fetch_stock_data leaves the loop and the function.
CalcLoop(mkt, c, portfolio, i, start_date, end_date, acc) ==
    IF i > Len(portfolio) \/ acc.raised THEN acc
    ELSE CalcLoop(mkt, c, portfolio, i + 1, start_date, end_date,
                  CalcStep(mkt, c, portfolio[i], start_date, end_date, acc))

\* The lines after the loop: the overall percent change, guarded.
CalcFinish(acc) ==
    IF acc.raised
    THEN [acc EXCEPT !.data = <<>>, !.total_start_value = Zero,
                     !.total_end_value = Zero, !.total_value_change = Zero]
    ELSE IF acc.total_start_value = Zero
    THEN [acc EXCEPT !.overall_percent_change = Zero,
                     !.printed = Append(@, Line("zerototal", <<>>, <<>>))]
    ELSE [acc EXCEPT !.overall_percent_change =
            FMul(FDivNumpy(acc.total_value_change, acc.total_start_value), Hundred)]

\* The result carries, besides the returned tuple, the calls made and the
\* diagnostics printed; raised: an exception left the function (no tuple).
calculate_values(mkt, c, portfolio, start_date, end_date) ==
    CalcFinish(CalcLoop(mkt, c, portfolio, 1, start_date, end_date, CalcStart))

-----------------------------------------------------------------------------
(* The history file: csv.writer and csv.reader with the default dialect. *)

DQ == "\""
\* Strings hold no line breaks here, so of the characters that force quoting
\* only the delimiter and the quote character occur.
NeedsQuote(fld) == \E i \in 1..Len(fld) : fld[i] \in {",", DQ}

RECURSIVE DoubleQuotes(_)
DoubleQuotes(fld) ==
    IF fld = <<>> THEN <<>>
    ELSE (IF Head(fld) = DQ THEN <<DQ, DQ>> ELSE <<Head(fld)>>)
         \o DoubleQuotes(Tail(fld))

\* CsvField without the quoting.
CsvFieldUnquoted(fld) == fld

CsvField(fld) ==
    IF NeedsQuote(fld) THEN <<DQ>> \o DoubleQuotes(fld) \o <<DQ>> ELSE fld

RECURSIVE CsvJoin(_)
CsvJoin(flds) ==
    IF Len(flds) = 1 THEN CsvField(flds[1])
    ELSE CsvField(Head(flds)) \o <<",">> \o CsvJoin(Tail(flds))

\* writer.writerow(row): the line written, without its terminator.
CsvWriteRow(row) == CsvJoin(row)

\* A field's text and the index at which the next field starts (past the
\* delimiter that ended this one; past the line's end when none did).
FieldRead(text, next) == [text |-> text, next |-> next]
Cons(ch, r) == FieldRead(<<ch>> \o r.text, r.next)

\* The reader in an unquoted field (IN_FIELD): everything up to the next
\* delimiter, a quote character included as it stands.
ReadPlain(line, i) ==
    LET Upto(j) == FieldRead(SubSeq(line, i, j - 1), j + 1)
    IN Upto(IndexFrom(line, ",", i))

RECURSIVE ReadQuoted(_, _)
\* The reader inside a quoted field (IN_QUOTED_FIELD) at index i.  A quote
\* character is a doubled quote, or ends the quoted part: then a delimiter or
\* the line's end ends the field, and anything else goes on unquoted.
ReadQuoted(line, i) ==
    IF i > Len(line) THEN FieldRead(<<>>, i + 1)
    ELSE IF line[i] # DQ THEN Cons(line[i], ReadQuoted(line, i + 1))
    ELSE IF i = Len(line) THEN FieldRead(<<>>, i + 2)
    ELSE IF line[i + 1] = DQ THEN Cons(DQ, ReadQuoted(line, i + 2))
    ELSE IF line[i + 1] = "," THEN FieldRead(<<>>, i + 2)
    ELSE Cons(line[i + 1], ReadPlain(line, i + 2))

\* One field from its first character on (START_FIELD).
ReadField(line, i) ==
    IF i <= Len(line) /\ line[i] = DQ THEN ReadQuoted(line, i + 1)
    ELSE ReadPlain(line, i)

RECURSIVE ReadFields(_, _)
\* The fields from index i on; a delimiter at the line's end starts one more,
\* empty field.
ReadFields(line, i) ==
    LET Rest(r) ==
          IF r.next > Len(line) + 1 THEN <<r.text>>
          ELSE <<r.text>> \o ReadFields(line, r.next)
    IN Rest(ReadField(line, i))

\* One row of csv.reader: an empty line is the empty row.
CsvReadRow(line) == IF line = <<>> THEN <<>> ELSE ReadFields(line, 1)

\* open(HISTORY_FILE, 'a'); writer.writerow([name, portfolio, start, end]).
save_to_history(f, name, portfolio, start_date, end_date) ==
    Append(f, CsvWriteRow(<<name, portfolio, start_date, end_date>>))

\* list(csv.reader(f)), or [] when the file does not exist.
load_history(f) == [i \in 1..Len(f) |-> CsvReadRow(f[i])]

-----------------------------------------------------------------------------
(* compare_portfolios. *)

\* [entry for entry in history if entry[0] == portfolio_name]
MatchingEntries(history, portfolio_name) ==
    SelectSeq(history, LAMBDA entry : Len(entry) >= 1 /\ entry[1] = portfolio_name)

\* What a run has produced so far; exit is "ok" until an exception leaves it.
Progress(prt, fch, rows, ex) ==
    [printed |-> prt, fetched |-> fch, rows |-> rows, exit |-> ex]

ComparisonRow(entry, v) ==
    [name |-> entry[1], start_date |-> entry[3], end_date |-> entry[4],
     total_start_value |-> v.total_start_value,
     total_end_value |-> v.total_end_value,
     percent_change |-> v.overall_percent_change,
     total_value_change |-> v.total_value_change]

\* The body of the inner loop: one stored entry is unpacked, parsed, valued
\* over its own stored dates and added to the table.
CompareEntry(mkt, c, entry, acc) ==
    LET Valued(v) ==
          IF v.raised
          THEN [acc EXCEPT !.exit = "ProviderError",
                           !.printed = @ \o v.printed, !.fetched = @ \o v.fetched]
          ELSE [acc EXCEPT !.printed = @ \o v.printed, !.fetched = @ \o v.fetched,
                           !.rows = Append(@, ComparisonRow(entry, v))]
        Parsed(p) ==
          IF p.raised THEN [acc EXCEPT !.exit = "ValueError"]
          ELSE Valued(calculate_values(mkt, c, p.holdings, entry[3], entry[4]))
    IN IF Len(entry) # 4 THEN [acc EXCEPT !.exit = "ValueError"]
       ELSE Parsed(parse_portfolio(entry[2]))

RECURSIVE CompareEntries(_, _, _, _, _)
CompareEntries(mkt, c, entries, i, acc) ==
    IF i > Len(entries) \/ acc.exit # "ok" THEN acc
    ELSE CompareEntries(mkt, c, entries, i + 1,
                        CompareEntry(mkt, c, entries[i], acc))

\* CompareName with the diagnostic of a missing name left out.
CompareNameSilent(mkt, c, history, portfolio_name, acc) ==
    LET Found(matching_entries) ==
          IF matching_entries = <<>> THEN acc
          ELSE CompareEntries(mkt, c, matching_entries, 1, acc)
    IN Found(MatchingEntries(history, portfolio_name))

\* The body of the outer loop for one requested name.
CompareName(mkt, c, history, portfolio_name, acc) ==
    LET Found(matching_entries) ==
          IF matching_entries = <<>>
          THEN [acc EXCEPT
                  !.printed = Append(@, Line("nohistory", portfolio_name, <<>>))]
          ELSE CompareEntries(mkt, c, matching_entries, 1, acc)
    IN Found(MatchingEntries(history, portfolio_name))

RECURSIVE CompareNames(_, _, _, _, _, _)
CompareNames(mkt, c, history, portfolios, i, acc) ==
    IF i > Len(portfolios) \/ acc.exit # "ok" THEN acc
    ELSE CompareNames(mkt, c, history, portfolios, i + 1,
                      CompareName(mkt, c, history, portfolios[i], acc))

\* The table is printed after the loops, whatever they found.
compare_portfolios(f, mkt, c, portfolios) ==
    LET Table(acc) ==
          IF acc.exit # "ok" THEN acc
          ELSE [acc EXCEPT !.printed = Append(@, Line("table", <<>>, acc.rows))]
    IN Table(CompareNames(mkt, c, load_history(f), portfolios, 1,
                          Progress(<<>>, <<>>, <<>>, "ok")))

-----------------------------------------------------------------------------
(* parse_args and main. *)

Args(name, portfolio, frm, to, aggregate, compare, save) ==
    [name |-> name, portfolio |-> portfolio, frm |-> frm, to |-> to,
     aggregate |-> aggregate, compare |-> compare, save |-> save]

\* parser.error(...) unless --portfolio and --from are there, or a mode is.
parse_args(args) ==
    ~(~args.aggregate /\ args.compare = <<>>
      /\ (args.portfolio = <<>> \/ args.frm = <<>>))

\* CompareLimit off by one.
CompareLimitOff == 5 + 1

\* The most names --compare takes.
CompareLimit == 5

print_results(data, start_date, end_date, v) ==
    [kind |-> "results", who |-> <<>>, rows |-> data,
     start_date |-> start_date, end_date |-> end_date,
     totals |-> <<v.total_start_value, v.total_end_value,
                  v.overall_percent_change, v.total_value_change>>]

\* What a run of main leaves: the file, the output, the calls, the exit.
Outcome(f, prt, fch, ld, ex) ==
    [file |-> f, printed |-> prt, fetched |-> fch, loaded |-> ld, exit |-> ex]

\* The body of the aggregate loop: an unset stored end date is resolved now.
AggregateEntry(mkt, c, entry, acc) ==
    LET Valued(v, end_date) ==
          IF v.raised
          THEN [acc EXCEPT !.exit = "ProviderError",
                           !.printed = @ \o v.printed, !.fetched = @ \o v.fetched]
          ELSE [acc EXCEPT
                  !.printed = (@ \o v.printed)
                              \o <<print_results(v.data, entry[3], end_date, v)>>,
                  !.fetched = @ \o v.fetched]
        Parsed(p, end_date) ==
          IF p.raised THEN [acc EXCEPT !.exit = "ValueError"]
          ELSE Valued(calculate_values(mkt, c, p.holdings, entry[3], end_date),
                      end_date)
    IN IF Len(entry) # 4 THEN [acc EXCEPT !.exit = "ValueError"]
       ELSE Parsed(parse_portfolio(entry[2]),
                   IF entry[4] # <<>> THEN entry[4]
                   ELSE get_previous_market_close(c))

RECURSIVE AggregateEntries(_, _, _, _, _)
AggregateEntries(mkt, c, history, i, acc) ==
    IF i > Len(history) \/ acc.exit # "ok" THEN acc
    ELSE AggregateEntries(mkt, c, history, i + 1,
                          AggregateEntry(mkt, c, history[i], acc))

main_aggregate(f, mkt, c) ==
    LET Done(acc) == Outcome(f, acc.printed, acc.fetched, TRUE, acc.exit)
    IN Done(AggregateEntries(mkt, c, load_history(f), 1,
                             Progress(<<>>, <<>>, <<>>, "ok")))

main_compare(args, f, mkt, c) ==
    LET Done(acc) == Outcome(f, acc.printed, acc.fetched, TRUE, acc.exit)
        Names(portfolios) ==
          IF Len(portfolios) > CompareLimit
          THEN Outcome(f, <<Line("limit", <<>>, <<>>)>>, <<>>, FALSE, "ok")
          ELSE Done(compare_portfolios(f, mkt, c, portfolios))
    IN Names(Split(args.compare, ","))

\* The else branch of main: value the portfolio, print, then save if asked.
main_value(args, f, mkt, c) ==
    LET Printed(v, out, start_date, end_date) ==
          IF ~args.save THEN Outcome(f, out, v.fetched, FALSE, "ok")
          ELSE IF args.name = <<>>
          THEN Outcome(f, out, v.fetched, FALSE, "ValueError")
          ELSE Outcome(save_to_history(f, args.name, args.portfolio,
                                       start_date, end_date),
                       out, v.fetched, FALSE, "ok")
        Valued(v, start_date, end_date) ==
          IF v.raised THEN Outcome(f, v.printed, v.fetched, FALSE, "ProviderError")
          ELSE Printed(v, Append(v.printed,
                                 print_results(v.data, start_date, end_date, v)),
                       start_date, end_date)
        Parsed(p, start_date, end_date) ==
          IF p.raised THEN Outcome(f, <<>>, <<>>, FALSE, "ValueError")
          ELSE Valued(calculate_values(mkt, c, p.holdings, start_date, end_date),
                      start_date, end_date)
    IN Parsed(parse_portfolio(args.portfolio),
              Replace(args.frm, ".", "-"),
              IF args.to # <<>> THEN Replace(args.to, ".", "-")
              ELSE get_previous_market_close(c))

main(args, f, mkt, c) ==
    IF ~parse_args(args) THEN Outcome(f, <<>>, <<>>, FALSE, "usage")
    ELSE IF args.aggregate THEN main_aggregate(f, mkt, c)
    ELSE IF args.compare # <<>> THEN main_compare(args, f, mkt, c)
    ELSE main_value(args, f, mkt, c)

-----------------------------------------------------------------------------
(* The calls of parse_portfolio on bounded strings. *)

ParseFrags ==
    { <<"A">>, <<"b">>, <<"(">>, <<")">>, <<"1">>, <<".">>, <<",">>,
      <<"A", "(", "1", "0", ")">>,
      <<"B", "(", "2", ".", "5", ")">>,
      <<"Z", "(", "0", ")">>,
      <<"A", "(", ".", ")">>,
      <<"A", "(", "1", ".", "2", ".", "3", ")">> }

ParseInputs ==
    UNION { {Concat(fs) : fs \in [1..n -> ParseFrags]} : n \in 0..MaxFrags }

NoParse == [raised |-> FALSE, holdings |-> <<>>]

IdleParse == ppc = "idle" /\ pstr = <<>> /\ pres = NoParse
IdleValue == vpc = "idle" /\ vport = <<>> /\ vres = <<>>
NoArgs == Args(<<>>, <<>>, <<>>, <<>>, FALSE, <<>>, FALSE)
\* No run of main yet: no history file, 10:00 of the first day.
IdleMain ==
    /\ file = <<>> /\ clock = 0 /\ lastArgs = NoArgs /\ printed = <<>>
    /\ fetched = <<>> /\ loaded = FALSE /\ exit = "none"

ParseInit ==
    /\ ppc = "call" /\ pstr \in ParseInputs /\ pres = NoParse
    /\ market = <<>>
    /\ IdleValue /\ IdleMain

ParseCall ==
    /\ ppc = "call"
    /\ pres' = parse_portfolio(pstr)
    /\ ppc' = "done"
    /\ UNCHANGED <<pstr, file, clock, market, lastArgs, printed, fetched,
                   loaded, exit, vpc, vport, vres>>

SpecParse == ParseInit /\ [][ParseCall]_vars

-----------------------------------------------------------------------------
(* The calls of calculate_values on bounded portfolios and markets. *)

ValueTickers == {TickerA, TickerB}
ValueShares == {Fin(0, 1), Fin(5, 1), Fin(10, 1)}
ValueHoldings == [ticker : ValueTickers, shares : ValueShares]
ValuePortfolios == UNION { [1..n -> ValueHoldings] : n \in 0..MaxHoldings }
ValueMarkets == [ValueTickers -> MarketKinds]

\* The window of these calls: the sessions of day 1 and day 2.
ValueStart == DateStr(1, "-")
ValueEnd == DateStr(3, "-")

ValueInit ==
    /\ vpc = "call" /\ vport \in ValuePortfolios /\ vres = <<>>
    /\ market \in ValueMarkets
    /\ IdleParse /\ IdleMain

ValueCall ==
    /\ vpc = "call"
    /\ vres' = calculate_values(market, clock, vport, ValueStart, ValueEnd)
    /\ vpc' = "done"
    /\ UNCHANGED <<vport, file, clock, market, lastArgs, printed, fetched,
                   loaded, exit, ppc, pstr, pres>>

SpecValue == ValueInit /\ [][ValueCall]_vars

-----------------------------------------------------------------------------
(* The runs of main, one after the other, as the clock goes on. *)

NameP == <<"p">>
NameQ == <<"q">>
PortAB == <<"A", "(", "1", "0", ")", ",", "B", "(", "5", ")">>
PortZ == <<"Z", "(", "3", ")">>
PortBad == <<"A", "(", ".", ")">>
FromDate == DateStr(1, ".")
ToDate == DateStr(2, ".")

ValueRuns ==
    {Args(n, PortAB, FromDate, t, FALSE, <<>>, TRUE) :
        n \in {<<>>, NameP, NameQ}, t \in {<<>>, ToDate}}
    \cup {Args(<<>>, PortAB, FromDate, t, FALSE, <<>>, FALSE) : t \in {<<>>, ToDate}}
    \cup {Args(NameP, pf, FromDate, <<>>, FALSE, <<>>, FALSE) : pf \in {PortZ, PortBad}}
UsageRuns ==
    {Args(NameP, <<>>, FromDate, <<>>, FALSE, <<>>, TRUE),
     Args(NameP, PortAB, <<>>, <<>>, FALSE, <<>>, TRUE)}
AggregateRuns == {Args(<<>>, <<>>, <<>>, <<>>, TRUE, <<>>, FALSE)}
CompareLists ==
    { <<"p">>, <<"p", ",", "q">>, <<"p", ",", "x">>,
      <<"p", ",", "q", ",", "p", ",", "q", ",", "x">>,
      <<"p", ",", "q", ",", "x", ",", "p", ",", "q", ",", "x">> }
CompareRuns == {Args(<<>>, <<>>, <<>>, <<>>, FALSE, cl, FALSE) : cl \in CompareLists}
ArgsSet == ValueRuns \cup UsageRuns \cup AggregateRuns \cup CompareRuns

MainTickers == {TickerA, TickerB, TickerZ}
GoodMarket == [t \in MainTickers |->
                 IF t = TickerA THEN Rising ELSE IF t = TickerB THEN Falling ELSE NoData]
BadMarket == [GoodMarket EXCEPT ![TickerB] = Failing]
MainMarkets == {GoodMarket, BadMarket}

Init ==
    /\ IdleMain /\ market \in MainMarkets
    /\ IdleParse /\ IdleValue

\* One run of the program, from parse_args to its exit.
Run(args) ==
    \E r \in {main(args, file, market, clock)} :
    /\ Len(r.file) <= MaxSaves
    /\ file' = r.file
    /\ printed' = r.printed
    /\ fetched' = r.fetched
    /\ loaded' = r.loaded
    /\ exit' = r.exit
    /\ lastArgs' = args
    /\ UNCHANGED <<clock, market, ppc, pstr, pres, vpc, vport, vres>>

\* Half a day passes between two runs.
Tick ==
    /\ clock < MaxClock
    /\ clock' = clock + 1
    /\ UNCHANGED <<file, market, lastArgs, printed, fetched, loaded, exit,
                   ppc, pstr, pres, vpc, vport, vres>>

Next == (\E args \in ArgsSet : Run(args)) \/ Tick

Spec == Init /\ [][Next]_vars

-----------------------------------------------------------------------------
(* What the properties below read off a state. *)

RanValue == exit # "none" /\ ~lastArgs.aggregate /\ lastArgs.compare = <<>>
RanAggregate == exit # "none" /\ lastArgs.aggregate
RanCompare == exit # "none" /\ ~lastArgs.aggregate /\ lastArgs.compare # <<>>
Requested == Split(lastArgs.compare, ",")
History == load_history(file)
Stored(n) == \E i \in 1..Len(History) : History[i][1] = n
NoHistoryCount == Cardinality({k \in 1..Len(printed) : printed[k].kind = "nohistory"})
Tables == SelectSeq(printed, LAMBDA ln : ln.kind = "table")
TableRows == IF Tables = <<>> THEN <<>> ELSE Tables[1].rows
MissingAt == {i \in 1..Len(Requested) : ~Stored(Requested[i])}
RowsNamed(n) == Cardinality({k \in 1..Len(TableRows) : TableRows[k].name = n})
TimesRequested(n) == Cardinality({i \in 1..Len(Requested) : Requested[i] = n})

-----------------------------------------------------------------------------
(* C1 *)

-----------------------------------------------------------------------------
(* C2 *)

\* C2: a run in compare mode never writes the store; with more than 5 names
\* it prints the usage diagnostic and returns without loading the store and
\* without a single fetch; with 5 names or fewer compare_portfolios runs (the
\* store is loaded).
C2_LimitBeforeWork ==
    [][ (clock' = clock /\ ~lastArgs'.aggregate /\ lastArgs'.compare # <<>>) =>
          /\ file' = file
          /\ IF Len(Split(lastArgs'.compare, ",")) > 5
             THEN /\ ~loaded' /\ fetched' = <<>> /\ exit' = "ok"
                  /\ Len(printed') = 1 /\ printed'[1].kind = "limit"
             ELSE /\ loaded'
                  /\ \A k \in 1..Len(printed') : printed'[k].kind # "limit"
      ]_vars

\* A compare of 6 names, run when the store held an entry.
C2_Witness ==
    /\ RanCompare /\ Len(Requested) = 6 /\ file # <<>>
    /\ ~loaded /\ fetched = <<>>

-----------------------------------------------------------------------------
(* C3 *)

\* C3, as claimed: whatever was saved, a compare that ends normally has one
\* row in its table for each request of a name the store holds, never several.
C3_OneRowPerName ==
    (RanCompare /\ Len(Requested) <= 5 /\ exit = "ok") =>
        \A i \in (1..Len(Requested)) \ MissingAt :
            RowsNamed(Requested[i]) = TimesRequested(Requested[i])

-----------------------------------------------------------------------------
(* C4, C5, C6: calculate_values. *)

HasData(h) ==
    fetch_stock_data(market, clock, h.ticker, ValueStart, ValueEnd).closes # <<>>
Held(rows) == [i \in 1..Len(rows) |-> [ticker |-> rows[i].ticker, shares |-> rows[i].shares]]

RECURSIVE SumOf(_)
SumOf(vals) == IF vals = <<>> THEN Zero ELSE FAdd(Head(vals), SumOf(Tail(vals)))
StartValues(rows) == [i \in 1..Len(rows) |-> rows[i].start_value]
EndValues(rows) == [i \in 1..Len(rows) |-> rows[i].end_value]
ValueChanges(rows) == [i \in 1..Len(rows) |-> rows[i].value_change]

\* C4, as claimed: a provider failure for one symbol is isolated: every
\* holding is still fetched, calculate_values still returns, and its rows are
\* those of the holdings that succeeded with data.
C4_FailureIsolated ==
    vpc = "done" =>
        /\ ~vres.raised
        /\ Len(vres.fetched) = Len(vport)
        /\ Held(vres.data) = SelectSeq(vport, HasData)

\* C5, as claimed: a row whose start value is 0 reports a percent change of 0,
\* and a total start value of 0 an overall percent change of 0.
C5_ZeroGuard ==
    (vpc = "done" /\ ~vres.raised) =>
        /\ \A i \in 1..Len(vres.data) :
              vres.data[i].start_value = Zero => vres.data[i].percent_change = Zero
        /\ (vres.total_start_value = Zero => vres.overall_percent_change = Zero)

\* C6: calculate_values returns one row per holding with data, in the order
\* of the holdings, none for a holding with an empty series; the three totals
\* are the sums of the rows' values; with no row all totals are 0; and 10 A
\* 100 -> 150 with 5 B 50 -> 40 gives 1250, 1700, +450 and 36%.
C6_RowsAndTotals ==
    (vpc = "done" /\ ~vres.raised) =>
        /\ Held(vres.data) = SelectSeq(vport, HasData)
        /\ vres.total_start_value = SumOf(StartValues(vres.data))
        /\ vres.total_end_value = SumOf(EndValues(vres.data))
        /\ vres.total_value_change = SumOf(ValueChanges(vres.data))
        /\ (vres.data = <<>> =>
              /\ vres.total_start_value = Zero /\ vres.total_end_value = Zero
              /\ vres.total_value_change = Zero
              /\ vres.overall_percent_change = Zero)
        /\ (/\ vport = <<[ticker |-> TickerA, shares |-> Fin(10, 1)],
                         [ticker |-> TickerB, shares |-> Fin(5, 1)]>>
            /\ market[TickerA] = Rising /\ market[TickerB] = Falling
            => /\ vres.total_start_value = Fin(1250, 1)
               /\ vres.total_end_value = Fin(1700, 1)
               /\ vres.total_value_change = Fin(450, 1)
               /\ vres.overall_percent_change = Fin(36, 1))

\* A returned valuation of two holdings of which the first had no data and
\* the second had.
C6_Witness ==
    /\ vpc = "done" /\ ~vres.raised /\ Len(vport) = 2
    /\ ~HasData(vport[1]) /\ HasData(vport[2]) /\ Len(vres.data) = 1

-----------------------------------------------------------------------------
(* C7 *)

\* C7, as claimed: a snapshot saved without --to is stored with the unset end
\* date, and aggregate values every such snapshot up to the previous market
\* close of the time it runs (the only explicit end date of these runs is
\* ToDate).
C7_RollingEndDate ==
    /\ (RanValue /\ exit = "ok" /\ lastArgs.save /\ lastArgs.to = <<>>) =>
          History[Len(History)][4] = <<>>
    /\ (RanAggregate /\ exit = "ok") =>
          \A k \in 1..Len(printed) :
             printed[k].kind = "results" =>
                \/ printed[k].end_date = Replace(ToDate, ".", "-")
                \/ printed[k].end_date = get_previous_market_close(clock)

-----------------------------------------------------------------------------
(* C8 *)

\* C8, as claimed: a run with --save and no --name, or without --portfolio or
\* --from outside aggregate and compare, fails with an error before anything
\* is fetched or printed (judged on the runs whose provider does not fail).
C8_UsageBeforeWork ==
    (/\ RanValue /\ market = GoodMarket
     /\ \/ lastArgs.save /\ lastArgs.name = <<>>
        \/ lastArgs.portfolio = <<>>
        \/ lastArgs.frm = <<>>) =>
        /\ exit \in {"usage", "ValueError"}
        /\ fetched = <<>>
        /\ printed = <<>>

-----------------------------------------------------------------------------
(* C9 *)

\* The holdings of the LETTERS(NUMBER) tokens of s whose NUMBER is a decimal.
WellFormed(s) ==
    HoldingsOf(SelectSeq(FindAll(s), LAMBDA m : FloatOk(m.shares))).holdings

\* C9, as claimed: parse_portfolio never raises and returns the holdings of
\* the well-formed tokens in their order, skipping everything else.
C9_LenientTotal ==
    ppc = "done" => (~pres.raised /\ pres.holdings = WellFormed(pstr))

-----------------------------------------------------------------------------
(* C10 *)

\* The entry a saving run with arguments a appends at clock c.
SavedEntry(a, c) ==
    <<a.name, a.portfolio, Replace(a.frm, ".", "-"),
      IF a.to # <<>> THEN Replace(a.to, ".", "-") ELSE get_previous_market_close(c)>>

\* C10: a valuation run with --save that ends normally appends one line to
\* the file and keeps the lines before it, and load_history then returns the
\* entries it returned before, in their order, followed by (name,
\* specification, start date, end date); every other run - aggregate, compare,
\* a valuation without --save, a failed one - leaves the file as it was.
C10_AppendOnly ==
    [][ IF /\ clock' = clock /\ exit' = "ok" /\ lastArgs'.save
           /\ ~lastArgs'.aggregate /\ lastArgs'.compare = <<>>
        THEN /\ Len(file') = Len(file) + 1
             /\ SubSeq(file', 1, Len(file)) = file
             /\ load_history(file') =
                  Append(load_history(file), SavedEntry(lastArgs', clock))
        ELSE file' = file
      ]_vars

\* An aggregate over a store of two entries, the second saved after the first.
C10_Witness ==
    /\ RanAggregate /\ loaded /\ Len(History) = 2
    /\ \A i \in 1..2 : Len(History[i]) = 4 /\ History[i][2] = PortAB

====
